---- MODULE Spec2Model ----
(***************************************************************************)
(* A model of the d3-venn layout: the set aggregator (extractSets), the    *)
(* region geometry (computeDistanceToCircles), the boundary interpolator   *)
(* (pathTween), the Distribute and Force placement strategies and the      *)
(* packingConfig accessor of the orchestrator.                             *)
(*                                                                         *)
(* JavaScript values are modelled as follows.                              *)
(*  - A string is a sequence of one-character strings, so that joining     *)
(*    with "," and the default (code unit) sort order are computed.        *)
(*  - A value that may be undefined is a tuple of length 0 (undefined) or  *)
(*    1 (the value).                                                       *)
(*  - A number that may be Infinity is a record [fin, v].                  *)
(*  - An object reference to a record of the data array is its index.      *)
(***************************************************************************)
EXTENDS Integers, Sequences, FiniteSets, TLC

VARIABLES
  data,           \* the records the caller passes to the layout
  sets,           \* venn.sets(): the Map of regions of the last computation
  circles,        \* the circle table of the last computation
  oldCircles,     \* the circle table the last computation replaced
  packer,         \* the simulation handle the Force strategy returned
  packingConfig,  \* opts.packingConfig
  last,           \* the last call made and what it returned
  dist            \* the position of a running distribute call

vars == <<data, sets, circles, oldCircles, packer, packingConfig, last, dist>>

----------------------------------------------------------------------------
(* Bounds of the model *)

MaxRecords == 3

\* the interpolation parameter t takes the values k / TDen, k in 0..TDen
TDen == 2

\* the cooling factor alpha takes the values a / AlphaDen, a in 1..AlphaDen
AlphaDen == 1

----------------------------------------------------------------------------
(* JavaScript values *)

Undefined == <<>>

Some(v) == <<v>>

IsDefined(o) == Len(o) = 1

Val(o) == o[1]

\* UTF-16 code units of the characters the set names are written in
CodeUnit(ch) == CASE ch = "," -> 44 [] ch = "a" -> 97 [] ch = "b" -> 98

\* s < t for two strings, as the default comparator of Array.prototype.sort
RECURSIVE StrLess(_, _)
StrLess(s, t) ==
  IF Len(t) = 0 THEN FALSE
  ELSE IF Len(s) = 0 THEN TRUE
  ELSE IF CodeUnit(Head(s)) # CodeUnit(Head(t))
       THEN CodeUnit(Head(s)) < CodeUnit(Head(t))
       ELSE StrLess(Tail(s), Tail(t))

\* insert v into the sorted array arr, after every element not greater than it
RECURSIVE SortInsert(_, _)
SortInsert(arr, v) ==
  IF Len(arr) = 0 THEN <<v>>
  ELSE IF StrLess(v, Head(arr)) THEN <<v>> \o arr
  ELSE <<Head(arr)>> \o SortInsert(Tail(arr), v)

\* arr.slice().sort(): a stable sort by code units
RECURSIVE Sort(_)
Sort(arr) ==
  IF Len(arr) = 0 THEN <<>>
  ELSE SortInsert(Sort(SubSeq(arr, 1, Len(arr) - 1)), arr[Len(arr)])

\* arr.join(",")
RECURSIVE Join(_)
Join(arr) ==
  IF Len(arr) = 0 THEN <<>>
  ELSE IF Len(arr) = 1 THEN arr[1]
  ELSE arr[1] \o <<",">> \o Join(Tail(arr))

\* arr.indexOf(v) > -1
Includes(arr, v) == \E i \in 1..Len(arr) : arr[i] = v

----------------------------------------------------------------------------
(* The insertion-ordered Map of regions, a sequence of entries with        *)
(* distinct keys                                                           *)

MapHas(m, k) == \E i \in 1..Len(m) : m[i].key = k

MapIndex(m, k) == CHOOSE i \in 1..Len(m) : m[i].key = k

MapGet(m, k) == IF MapHas(m, k) THEN Some(m[MapIndex(m, k)]) ELSE Undefined

----------------------------------------------------------------------------
(* Set aggregator *)

\* default set accessor: d.set || []
setsAccessorFn(d) == IF IsDefined(d.set) THEN Val(d.set) ELSE <<>>

\* default setSize function
setsSize(size) == size

\* a forEach that never counts a set name again
RECURSIVE AddIndividualOnce(_, _, _)
AddIndividualOnce(individualSets, setArr, j) ==
  IF j > Len(setArr) THEN individualSets
  ELSE AddIndividualOnce(IF ~MapHas(individualSets, setArr[j])
                         THEN Append(individualSets,
                                     [key |-> setArr[j], size |-> 1,
                                      sets |-> <<setArr[j]>>, nodes |-> <<>>])
                         ELSE individualSets,
                         setArr, j + 1)

\* setArr.forEach over the individual sets, from position j on
RECURSIVE AddIndividual(_, _, _)
AddIndividual(individualSets, setArr, j) ==
  IF j > Len(setArr) THEN individualSets
  ELSE LET val == setArr[j]
           next == IF ~MapHas(individualSets, val)
                   THEN Append(individualSets,
                               [key |-> val, size |-> 1, sets |-> <<val>>,
                                nodes |-> <<>>])
                   ELSE [individualSets
                          EXCEPT ![MapIndex(individualSets, val)].size = @ + 1]
       IN  AddIndividual(next, setArr, j + 1)

\* a bucket that counts a later record without keeping it
AddExactNoPush(setsMap, key, setArr, i) ==
  IF MapHas(setsMap, key)
  THEN [setsMap EXCEPT ![MapIndex(setsMap, key)].size = @ + 1]
  ELSE Append(setsMap,
              [key |-> key, sets |-> setArr, size |-> 1, nodes |-> <<i>>])

\* the exact-combination bucket of record i
AddExact(setsMap, key, setArr, i) ==
  IF MapHas(setsMap, key)
  THEN [setsMap EXCEPT ![MapIndex(setsMap, key)].size = @ + 1,
                       ![MapIndex(setsMap, key)].nodes = Append(@, i)]
  ELSE Append(setsMap,
              [key |-> key, sets |-> setArr, size |-> 1, nodes |-> <<i>>])

\* the loop over data, from record i on
RECURSIVE ExtractLoop(_, _, _, _)
ExtractLoop(d, i, setsMap, individualSets) ==
  IF i > Len(d)
  THEN [data |-> d, setsMap |-> setsMap, individualSets |-> individualSets]
  ELSE LET setArr == setsAccessorFn(d[i]) IN
       IF Len(setArr) = 0
       THEN ExtractLoop(d, i + 1, setsMap, individualSets)
       ELSE LET key == Join(Sort(setArr)) IN
            ExtractLoop([d EXCEPT ![i].setKey = Some(key)], i + 1,
                        AddExact(setsMap, key, setArr, i),
                        AddIndividual(individualSets, setArr, 1))

\* add any single sets that might be missing, from entry j on
RECURSIVE AddMissing(_, _, _)
AddMissing(setsMap, individualSets, j) ==
  IF j > Len(individualSets) THEN setsMap
  ELSE AddMissing(IF ~MapHas(setsMap, individualSets[j].key)
                  THEN Append(setsMap, individualSets[j])
                  ELSE setsMap,
                  individualSets, j + 1)

\* adjust size with the user function
AdjustSize(setsMap) ==
  [j \in 1..Len(setsMap) |-> [setsMap[j] EXCEPT !.size = setsSize(@)]]

\* extractSets(data): the Map of regions and the records with their keys
extractSets(d) ==
  LET r == ExtractLoop(d, 1, <<>>, <<>>) IN
  [data |-> r.data,
   setsMap |-> AdjustSize(AddMissing(r.setsMap, r.individualSets, 1))]

----------------------------------------------------------------------------
(* Region geometry *)

Infinity == [fin |-> FALSE, v |-> 0]

Num(n) == [fin |-> TRUE, v |-> n]

\* Math.sqrt on the squares the model's points yield (the floor elsewhere)
Sqrt(n) == CHOOSE r \in 0..n : r * r <= n /\ (r + 1) * (r + 1) > n

\* distance(p1, p2) of circleintersection.js
distance(p1, p2) ==
  Sqrt((p1.x - p2.x) * (p1.x - p2.x) + (p1.y - p2.y) * (p1.y - p2.y))

Min(S) == CHOOSE m \in S : \A n \in S : m <= n

\* the bound one circle of the table puts on the region
CircleBound(set, table, cid) ==
  LET circle == table[cid]
      isInside == Includes(set.sets, cid)
      distToCenter == distance(set.center, circle)
      overlapping ==
        \E j \in 1..Len(set.sets) :
          distance(table[set.sets[j]], circle) < table[set.sets[j]].radius
  IN  IF isInside THEN circle.radius - distToCenter
      ELSE IF overlapping THEN distToCenter - circle.radius
      ELSE distToCenter + circle.radius

\* computeDistanceToCircles(set): the least bound over the circles of the
\* table, Infinity when the table holds none
computeDistanceToCircles(set, table) ==
  IF DOMAIN table = {} THEN Infinity
  ELSE Num(Min({CircleBound(set, table, cid) : cid \in DOMAIN table}))

----------------------------------------------------------------------------
(* Boundary interpolator *)

\* venn.size(), as the caller set it (the default is [1, 1])
size == <<12, 16>>

Geometry(c) == [x |-> c.x, y |-> c.y, radius |-> c.radius]

\* the circle taken when there is none: the canvas center, radius 1
FallbackCircle == [x |-> size[1] \div 2, y |-> size[2] \div 2, radius |-> 1]

\* const start = circle?.previous || fallback
TweenStart(table, sid) ==
  IF sid \in DOMAIN table /\ IsDefined(table[sid].previous)
  THEN Val(table[sid].previous) ELSE FallbackCircle

\* const end = circle || fallback
TweenEnd(table, sid) ==
  IF sid \in DOMAIN table THEN Geometry(table[sid]) ELSE FallbackCircle

\* an interpolation with the weights of start and end exchanged
InterpolateSwapped(start, end, k) ==
  [x |-> start.x * k + end.x * (TDen - k),
   y |-> start.y * k + end.y * (TDen - k),
   radius |-> start.radius * k + end.radius * (TDen - k)]

\* start * (1 - t) + end * t for t = k / TDen, in units of 1 / TDen
Interpolate(start, end, k) ==
  [x |-> start.x * (TDen - k) + end.x * k,
   y |-> start.y * (TDen - k) + end.y * k,
   radius |-> start.radius * (TDen - k) + end.radius * k]

\* the circles handed to intersectionAreaPath by set.d(t)
TweenPath(set, table, k) ==
  [j \in 1..Len(set.sets) |->
     Interpolate(TweenStart(table, set.sets[j]), TweenEnd(table, set.sets[j]), k)]

\* a commit at every t
TweenCommitAlways(set, table, k) ==
  [cid \in DOMAIN table |->
     IF Includes(set.sets, cid)
     THEN [table[cid] EXCEPT !.previous = Some(Geometry(table[cid]))]
     ELSE table[cid]]

\* if (t === 1 && circle) circle.previous = end
TweenCommit(set, table, k) ==
  [cid \in DOMAIN table |->
     IF k = TDen /\ Includes(set.sets, cid)
     THEN [table[cid] EXCEPT !.previous = Some(Geometry(table[cid]))]
     ELSE table[cid]]

\* circles = scaleSolution(...), then circles[k].previous = oldCircles[k]
CarryPrevious(solution, old) ==
  [cid \in DOMAIN solution |->
     [x |-> solution[cid].x, y |-> solution[cid].y,
      radius |-> solution[cid].radius,
      previous |-> IF IsDefined(old) /\ cid \in DOMAIN Val(old)
                   THEN Some(Geometry(Val(old)[cid])) ELSE Undefined]]

----------------------------------------------------------------------------
(* getSet.js and the Force strategy *)

\* the options binder(simulation, ...) installs on a new simulation
ForceDefaults ==
  [k \in {"padding", "maxRadius", "collider", "ticker", "ender", "starter"} |->
     CASE k = "padding" -> "3" [] k = "maxRadius" -> "8"
       [] k = "collider" -> "true" [] OTHER -> "null"]

\* opts.packingConfig of a new layout
DefaultConfig == [k \in {"value"} |-> "valueFn"]

\* for (const k in _) config[k] = _[k]
MergeConfig(config, arg) ==
  [k \in DOMAIN config \cup DOMAIN arg |->
     IF k \in DOMAIN arg THEN arg[k] ELSE config[k]]

\* applier(component, options): call each setter the component has
applier(component, options) ==
  [k \in DOMAIN component |->
     IF k \in DOMAIN options THEN options[k] ELSE component[k]]

Truthy(v) == v \notin {"null", "false", "0"}

\* a coordinate that is undefined or 0 is falsy
Falsy(c) == ~IsDefined(c) \/ Val(c) = 0

\* const setData = sets.get(d.__setKey__)
RegionOf(d, regions) ==
  IF IsDefined(d.setKey) THEN MapGet(regions, Val(d.setKey)) ELSE Undefined

\* init(): d.x = d.x || center.x, d.y = d.y || center.y
init(d, regions) ==
  [i \in 1..Len(d) |->
     LET setData == RegionOf(d[i], regions) IN
       IF IsDefined(setData)
       THEN [d[i] EXCEPT
               !.x = IF Falsy(@) THEN Some(Val(setData).center.x) ELSE @,
               !.y = IF Falsy(@) THEN Some(Val(setData).center.y) ELSE @]
       ELSE d[i]]

\* c += (center - c) * 0.2 * alpha for alpha = a / AlphaDen; the coordinates
\* are whole numbers and the product is rounded down
Pull(c, center, a) ==
  IF IsDefined(c)
  THEN Some(Val(c) + ((center - Val(c)) * a) \div (5 * AlphaDen))
  ELSE c

\* tick(): move the records toward the center of their region
tick(d, regions, a) ==
  [i \in 1..Len(d) |->
     LET setData == RegionOf(d[i], regions) IN
       IF IsDefined(setData)
       THEN [d[i] EXCEPT !.x = Pull(@, Val(setData).center.x, a),
                         !.y = Pull(@, Val(setData).center.y, a)]
       ELSE d[i]]

\* force(): the simulation is layout.packer() or a new one with the defaults;
\* layout.packingConfig() is read and not used
force(handle, config) ==
  IF IsDefined(handle) THEN Val(handle) ELSE ForceDefaults

----------------------------------------------------------------------------
(* The orchestrator *)

NoCall == [op |-> "none"]

\* the region of the Map with its center and inner radius
Enrich(set, table, centres) ==
  LET placed == [key |-> set.key, sets |-> set.sets, size |-> set.size,
                 nodes |-> set.nodes, center |-> centres[set.key]]
  IN  [key |-> set.key, sets |-> set.sets, size |-> set.size,
       nodes |-> set.nodes, center |-> centres[set.key],
       innerRadius |-> computeDistanceToCircles(placed, table)]

\* the set names of a Map of regions
NamesOf(setsMap) ==
  UNION {{setsMap[j].sets[n] : n \in 1..Len(setsMap[j].sets)} :
           j \in 1..Len(setsMap)}

KeysOf(setsMap) == {setsMap[j].key : j \in 1..Len(setsMap)}

\* venn(data) with the Force strategy: compute(data) for the records with the
\* membership lists newSets, the scaled solution of the solver and the
\* centres of computeTextCentres. The solution holds a circle for every set
\* name or none at all (with some circles and a set without one, line 110
\* raises), and every region has a centre.
Venn(newSets, solution, centres) ==
  LET r == extractSets([i \in 1..Len(data) |->
                          [data[i] EXCEPT !.set = newSets[i]]])
      table == CarryPrevious(solution, circles)
      regions == [j \in 1..Len(r.setsMap) |->
                    Enrich(r.setsMap[j], table, centres)]
      simulation == force(packer, packingConfig)
  IN  /\ DOMAIN solution \in {{}, NamesOf(r.setsMap)}
      /\ DOMAIN centres = KeysOf(r.setsMap)
      /\ oldCircles' = IF IsDefined(circles)
                       THEN Some([cid \in DOMAIN Val(circles) |->
                                    Geometry(Val(circles)[cid])])
                       ELSE Undefined
      /\ circles' = Some(table)
      /\ sets' = Some(regions)
      /\ data' = init(r.data, regions)
      /\ packer' = Some(simulation)
      /\ last' = [op |-> "compute",
                  starter |-> IF Truthy(simulation["starter"])
                              THEN Some(simulation["starter"]) ELSE Undefined]
      /\ UNCHANGED <<packingConfig, dist>>

\* sets.get(key).d(t) for t = k / TDen
Tween(j, k) ==
  /\ IsDefined(sets)
  /\ j \in 1..Len(Val(sets))
  /\ circles' = Some(TweenCommit(Val(sets)[j], Val(circles), k))
  /\ last' = [op |-> "tween", region |-> j, t |-> k,
              path |-> TweenPath(Val(sets)[j], Val(circles), k)]
  /\ UNCHANGED <<data, sets, oldCircles, packer, packingConfig, dist>>

\* a tick of the simulation at alpha = a / AlphaDen
Tick(a) ==
  /\ IsDefined(packer)
  /\ data' = tick(data, Val(sets), a)
  /\ last' = [op |-> "tick",
              ticker |-> IF Truthy(Val(packer)["ticker"])
                         THEN Some(Val(packer)["ticker"]) ELSE Undefined]
  /\ UNCHANGED <<sets, circles, oldCircles, packer, packingConfig, dist>>

\* venn.packingConfig(_)
PackingConfig(arg) ==
  /\ packingConfig' = MergeConfig(packingConfig, arg)
  /\ packer' = IF IsDefined(packer) THEN Some(applier(Val(packer), arg))
               ELSE packer
  /\ last' = [op |-> "packingConfig"]
  /\ UNCHANGED <<data, sets, circles, oldCircles, dist>>

----------------------------------------------------------------------------
(* The inputs of the aggregator *)

NameA == <<"a">>

NameB == <<"b">>

NameAB == <<"a", ",", "b">>

\* membership lists of a record: missing, empty, single, multiple in both
\* orders, repeated, and one name that holds a comma
SetLists ==
  {Undefined, Some(<<>>), Some(<<NameA>>), Some(<<NameB>>),
   Some(<<NameA, NameB>>), Some(<<NameB, NameA>>), Some(<<NameA, NameA>>),
   Some(<<NameAB>>)}

NewRecord(s) == [set |-> s, setKey |-> Undefined, x |-> Undefined, y |-> Undefined]

DataOfLen(n) == [1..n -> {NewRecord(s) : s \in SetLists}]

Unused == <<>>

\* the membership lists as the records hold them
CurrentSets == [i \in 1..Len(data) |-> data[i].set]

\* a solver that puts the circle of every set name at one place
StdSolution(names) == [cid \in names |-> [x |-> 0, y |-> 0, radius |-> 10]]

\* a centre locator that puts every region at one place
StdCentres(keys) == [k \in keys |-> [x |-> 6, y |-> 0]]

InitAgg ==
  /\ data \in UNION {DataOfLen(n) : n \in 0..MaxRecords}
  /\ sets = Undefined
  /\ circles = Undefined
  /\ oldCircles = Undefined
  /\ packer = Undefined
  /\ packingConfig = DefaultConfig
  /\ last = NoCall
  /\ dist = Unused

\* a layout computation of the records as they are
VennAgain ==
  LET setsMap == extractSets(data).setsMap IN
    Venn(CurrentSets, StdSolution(NamesOf(setsMap)), StdCentres(KeysOf(setsMap)))

SpecAgg == InitAgg /\ [][VennAgain]_vars

----------------------------------------------------------------------------
(* Layout computations and transitions *)

\* two records: one in set a alone, one in both sets
LayoutData == <<NewRecord(Some(<<NameA>>)), NewRecord(Some(<<NameA, NameB>>))>>

Circle(x, y, radius) == [x |-> x, y |-> y, radius |-> radius]

Table(ca, cb) == [cid \in {NameA, NameB} |-> IF cid = NameA THEN ca ELSE cb]

\* the scaled solutions of the solver: overlapping circles, disjoint
\* circles, one circle kept where it was, and no circle at all
Solutions ==
  {Table(Circle(0, 0, 10), Circle(6, 8, 6)),
   Table(Circle(6, 0, 4), Circle(0, 8, 3)),
   Table(Circle(0, 0, 10), Circle(0, 8, 3)),
   <<>>}

\* the centres of the regions, as computeTextCentres places them
Centres ==
  {[k \in {NameA, NameB, Join(<<NameA, NameB>>)} |-> [x |-> 0, y |-> 0]],
   [k \in {NameA, NameB, Join(<<NameA, NameB>>)} |->
      IF k = NameB THEN [x |-> 6, y |-> 8] ELSE [x |-> 6, y |-> 0]]}

InitLayout ==
  /\ data = LayoutData
  /\ sets = Undefined
  /\ circles = Undefined
  /\ oldCircles = Undefined
  /\ packer = Undefined
  /\ packingConfig = DefaultConfig
  /\ last = NoCall
  /\ dist = Unused

RegionIndices == IF IsDefined(sets) THEN 1..Len(Val(sets)) ELSE {}

NextLayout ==
  \/ \E solution \in Solutions, centres \in Centres :
       Venn(CurrentSets, solution, centres)
  \/ \E j \in RegionIndices, k \in 0..TDen : Tween(j, k)
  \/ \E a \in 1..AlphaDen : Tick(a)
  \/ PackingConfig([k \in {"padding"} |-> "10"])

SpecLayout == InitLayout /\ [][NextLayout]_vars

----------------------------------------------------------------------------
(* Configuration of the Force strategy *)

Option(k, v) == [o \in {k} |-> v]

\* the objects passed to venn.packingConfig: each recognized option, a
\* recognized option beside one of the Pack strategy, and an unknown key
ConfigArgs ==
  {Option("padding", "10"), Option("maxRadius", "20"),
   Option("collider", "false"), Option("starter", "onStart"),
   Option("ticker", "onTick"), Option("ender", "onEnd"),
   [o \in {"padding", "value"} |-> IF o = "padding" THEN "5" ELSE "weight"],
   Option("unknown", "1")}

NextConfig ==
  \/ \E arg \in ConfigArgs : PackingConfig(arg)
  \/ VennAgain

SpecConfig == InitLayout /\ [][NextConfig]_vars

----------------------------------------------------------------------------
(* Force computations on the same records *)

ForceSetLists == {Some(<<>>), Some(<<NameA>>), Some(<<NameB>>)}

\* the positions the caller gives a record: none, the origin, another point
Positions ==
  {<<Undefined, Undefined>>, <<Some(0), Some(0)>>, <<Some(3), Some(4)>>}

Placed(s, pos) ==
  [set |-> s, setKey |-> Undefined, x |-> pos[1], y |-> pos[2]]

\* a centre locator that puts region a and region b apart
ForceCentres(keys) ==
  [k \in keys |-> IF k = NameA THEN [x |-> 5, y |-> 0] ELSE [x |-> 0, y |-> 0]]

InitForce ==
  /\ \E pos \in Positions :
       data = <<Placed(Undefined, <<Undefined, Undefined>>),
                Placed(Undefined, pos)>>
  /\ sets = Undefined
  /\ circles = Undefined
  /\ oldCircles = Undefined
  /\ packer = Undefined
  /\ packingConfig = DefaultConfig
  /\ last = NoCall
  /\ dist = Unused

\* a layout computation after the caller has set the membership lists
VennWith(newSets) ==
  LET setsMap == extractSets([i \in 1..Len(data) |->
                                [data[i] EXCEPT !.set = newSets[i]]]).setsMap
  IN  Venn(newSets, StdSolution(NamesOf(setsMap)), ForceCentres(KeysOf(setsMap)))

NextForce ==
  \/ \E newSets \in [1..Len(data) -> ForceSetLists] : VennWith(newSets)
  \/ \E a \in 1..AlphaDen : Tick(a)

SpecForce == InitForce /\ [][NextForce]_vars

----------------------------------------------------------------------------
(* The Distribute strategy, one step of its loops at a time *)

\* const maxAttempt = 500
maxAttempt == 500

SquaredDistance(p, c) == (p.x - c.x) * (p.x - c.x) + (p.y - c.y) * (p.y - c.y)

\* the circles of the table a region holds (inCircles) and the others
\* (outCircles)
InCircles(set, table) == {table[cid] : cid \in {c \in DOMAIN table : Includes(set.sets, c)}}

OutCircles(set, table) == {table[cid] : cid \in {c \in DOMAIN table : ~Includes(set.sets, c)}}

\* containedInCircles(point, circles) of circleintersection.js: no circle has
\* distance(point, circle) > circle.radius + SMALL. SMALL is 1e-10 and the
\* coordinates are whole numbers, so the test is on the squares.
containedInCircles(point, cs) ==
  \A c \in cs : ~(SquaredDistance(point, c) > c.radius * c.radius)

\* a test without the tolerance: a point on a circle counts as out of it
outOfCirclesStrict(point, cs) ==
  \A c \in cs : ~(SquaredDistance(point, c) < c.radius * c.radius)

\* outOfCircles(point, circles): no circle has
\* distance(point, circle) < circle.radius + SMALL
outOfCircles(point, cs) ==
  \A c \in cs : ~(SquaredDistance(point, c) <= c.radius * c.radius)

\* the points s + r (cos a, sin a) that one attempt can draw from anchor s:
\* r is Math.sqrt(Math.random() * (innerRadius^2 + 100)) and a is any angle
Reach(s, innerRadius, points) ==
  {p \in points :
     SquaredDistance(p, s) < innerRadius.v * innerRadius.v + 10 * 10}

Point(x, y) == [x |-> x, y |-> y]

\* the points an attempt is offered: the centres, points of one region
\* only, points on a circle, and points of no region
SamplePoints ==
  {Point(-16, 0), Point(-6, 0), Point(-4, 0), Point(2, 0), Point(4, 0),
   Point(0, 6), Point(6, 0), Point(8, 0), Point(16, 0)}

\* three records of set a alone and two of both sets
DistData ==
  <<NewRecord(Some(<<NameA>>)), NewRecord(Some(<<NameA>>)),
    NewRecord(Some(<<NameA>>)), NewRecord(Some(<<NameB, NameA>>)),
    NewRecord(Some(<<NameA, NameB>>))>>

\* two overlapping circles, and a small circle apart from a large one
DistTables ==
  {Table(Circle(0, 0, 10), Circle(16, 0, 10)),
   Table(Circle(0, 0, 3), Circle(16, 0, 10))}

DistCentres ==
  [k \in {NameA, NameB, Join(<<NameA, NameB>>)} |->
     IF k = NameA THEN Point(-6, 0)
     ELSE IF k = NameB THEN Point(16, 0) ELSE Point(8, 0)]

\* the layout as compute hands it to the strategy
InitDist ==
  /\ \E solution \in DistTables :
       LET r == extractSets(DistData)
           table == CarryPrevious(solution, Undefined)
       IN  /\ data = r.data
           /\ circles = Some(table)
           /\ sets = Some([j \in 1..Len(r.setsMap) |->
                             Enrich(r.setsMap[j], table, DistCentres)])
  /\ oldCircles = Undefined
  /\ packer = Undefined
  /\ packingConfig = DefaultConfig
  /\ last = NoCall
  /\ dist = [pc |-> "run", j |-> 1, i |-> 1, attempt |-> 0, queue |-> <<>>,
             how |-> [n \in 1..Len(DistData) |-> "none"]]

DistSet == Val(sets)[dist.j]

\* children[i] of the region at hand, a record of data
DistChild == DistSet.nodes[dist.i]

PlaceAt(n, p) == [data EXCEPT ![n].x = Some(p.x), ![n].y = Some(p.y)]

\* i === 0: the first node in the center
DistFirst ==
  /\ dist.pc = "run"
  /\ dist.i = 1
  /\ dist.i <= Len(DistSet.nodes)
  /\ data' = PlaceAt(DistChild, DistSet.center)
  /\ dist' = [dist EXCEPT !.i = 2, !.queue = <<DistSet.center>>,
                          !.how[DistChild] = "center"]
  /\ UNCHANGED <<sets, circles, oldCircles, packer, packingConfig, last>>

Accepted(p) ==
  /\ containedInCircles(p, InCircles(DistSet, Val(circles)))
  /\ outOfCircles(p, OutCircles(DistSet, Val(circles)))

\* while (!candidate && attempt < maxAttempt), for a node after the first
InLoop ==
  /\ dist.pc = "run"
  /\ dist.i > 1
  /\ dist.i <= Len(DistSet.nodes)
  /\ dist.attempt < maxAttempt

\* an attempt whose point is accepted: candidate = p, queue.push(p), and
\* the node is placed at it
DistAccept ==
  /\ InLoop
  /\ \E randIdx \in 1..Len(dist.queue) :
       \E p \in Reach(dist.queue[randIdx], DistSet.innerRadius, SamplePoints) :
         /\ Accepted(p)
         /\ data' = PlaceAt(DistChild, p)
         /\ dist' = [dist EXCEPT !.i = @ + 1, !.attempt = 0,
                                 !.queue = Append(@, p),
                                 !.how[DistChild] = "sampled"]
  /\ UNCHANGED <<sets, circles, oldCircles, packer, packingConfig, last>>

\* an attempt whose point is rejected, with attempts left
DistReject ==
  /\ InLoop
  /\ dist.attempt + 1 < maxAttempt
  /\ \E randIdx \in 1..Len(dist.queue) :
       \E p \in Reach(dist.queue[randIdx], DistSet.innerRadius, SamplePoints) :
         ~Accepted(p)
  /\ dist' = [dist EXCEPT !.attempt = @ + 1]
  /\ UNCHANGED <<data, sets, circles, oldCircles, packer, packingConfig, last>>

\* the last attempt rejected: the node falls back to the center
DistFallback ==
  /\ InLoop
  /\ dist.attempt + 1 >= maxAttempt
  /\ \E randIdx \in 1..Len(dist.queue) :
       \E p \in Reach(dist.queue[randIdx], DistSet.innerRadius, SamplePoints) :
         ~Accepted(p)
  /\ data' = PlaceAt(DistChild, DistSet.center)
  /\ dist' = [dist EXCEPT !.i = @ + 1, !.attempt = 0,
                          !.how[DistChild] = "fallback"]
  /\ UNCHANGED <<sets, circles, oldCircles, packer, packingConfig, last>>

\* the nodes of the region are placed: the next region, or the end
DistNextSet ==
  /\ dist.pc = "run"
  /\ dist.i > Len(DistSet.nodes)
  /\ dist' = IF dist.j < Len(Val(sets))
             THEN [dist EXCEPT !.j = @ + 1, !.i = 1, !.queue = <<>>]
             ELSE [dist EXCEPT !.pc = "done", !.queue = <<>>]
  /\ UNCHANGED <<data, sets, circles, oldCircles, packer, packingConfig, last>>

NextDist ==
  \/ DistFirst
  \/ DistAccept
  \/ DistReject
  \/ DistFallback
  \/ DistNextSet

\* the call runs on: a step that can be taken is taken
SpecDist == InitDist /\ [][NextDist]_vars /\ WF_vars(NextDist)

----------------------------------------------------------------------------
(* Claims about the aggregator, checked under SpecAgg *)

Regions == Val(sets)

HasMembers(i) == Len(setsAccessorFn(data[i])) > 0

Signature(i) == Join(Sort(setsAccessorFn(data[i])))

\* the places (region, position) of record i in the records lists
PlacesOf(i) ==
  {pl \in (1..Len(Regions)) \X (1..Len(data)) :
     /\ pl[2] <= Len(Regions[pl[1]].nodes)
     /\ Regions[pl[1]].nodes[pl[2]] = i}

\* the number of times name n occurs in the first j entries of arr
RECURSIVE Occurrences(_, _, _)
Occurrences(arr, n, j) ==
  IF j = 0 THEN 0
  ELSE Occurrences(arr, n, j - 1) + (IF arr[j] = n THEN 1 ELSE 0)

\* the number of times name n occurs in the lists of the first i records
RECURSIVE TotalOccurrences(_, _)
TotalOccurrences(n, i) ==
  IF i = 0 THEN 0
  ELSE TotalOccurrences(n, i - 1)
       + Occurrences(setsAccessorFn(data[i]), n, Len(setsAccessorFn(data[i])))

RecordsWithSignature(k) ==
  {i \in 1..Len(data) : HasMembers(i) /\ Signature(i) = k}

\* C1: after extractSets every record with a non-empty membership list is in
\* the records list of exactly one region, exactly once, and that region's
\* key is the signature stored on the record (the sorted, comma-joined
\* list); a record with an empty or missing list is in no records list.
C1_Partition ==
  IsDefined(sets) =>
    \A i \in 1..Len(data) :
      IF HasMembers(i)
      THEN /\ Cardinality(PlacesOf(i)) = 1
           /\ data[i].setKey = Some(Signature(i))
           /\ \A pl \in PlacesOf(i) : Regions[pl[1]].key = Val(data[i].setKey)
      ELSE PlacesOf(i) = {}

\* a computation in which two records share one region and a third has none
C1_Witness ==
  /\ IsDefined(sets)
  /\ \E j \in 1..Len(Regions) : Len(Regions[j].nodes) = 2
  /\ \E i \in 1..Len(data) : ~HasMembers(i)

\* C2: every set name in some record's membership list has a region whose
\* key is that name and whose member-set list is exactly that one name.
C2_SingleSetRegions ==
  IsDefined(sets) =>
    \A i \in 1..Len(data) :
      \A j \in 1..Len(setsAccessorFn(data[i])) :
        LET n == setsAccessorFn(data[i])[j] IN
          /\ MapHas(Regions, n)
          /\ Regions[MapIndex(Regions, n)].sets = <<n>>

\* C3 as claimed: the count of every region is the number of records with
\* the region's key as signature, the length of its records list.
C3_CountIsRecords ==
  IsDefined(sets) =>
    \A j \in 1..Len(Regions) :
      /\ Regions[j].size = Len(Regions[j].nodes)
      /\ Regions[j].size = Cardinality(RecordsWithSignature(Regions[j].key))

\* C3 as amended: a region some record has as exact combination counts the
\* records with that signature, the length of its records list; a single-set
\* region added because no record has that exact combination has an empty
\* records list and counts the occurrences of its name in all the lists.
C3_CountAmended ==
  IsDefined(sets) =>
    \A j \in 1..Len(Regions) :
      IF RecordsWithSignature(Regions[j].key) # {}
      THEN /\ Regions[j].size = Len(Regions[j].nodes)
           /\ Regions[j].size = Cardinality(RecordsWithSignature(Regions[j].key))
      ELSE /\ Regions[j].nodes = <<>>
           /\ Regions[j].size = TotalOccurrences(Regions[j].key, Len(data))

\* an added single-set region that counts two occurrences, beside a region
\* of two records
C3_Witness ==
  /\ IsDefined(sets)
  /\ \E j \in 1..Len(Regions) :
       Regions[j].nodes = <<>> /\ Regions[j].size = 2
  /\ \E j \in 1..Len(Regions) : Len(Regions[j].nodes) = 2

----------------------------------------------------------------------------
(* Claims about the geometry and the interpolator, checked under SpecLayout *)

\* C4: the inner radius computeDistanceToCircles stores on a region is a
\* finite number, never +Infinity, also when the circle table is empty.
C4_InnerRadiusFinite ==
  IsDefined(sets) => \A j \in 1..Len(Regions) : Regions[j].innerRadius.fin

\* (1 - t) * p + t * q for t = k / TDen, in units of 1 / TDen
Lerp(p, q, k) == (TDen - k) * p + k * q

Blend(start, end, k) ==
  [x |-> Lerp(start.x, end.x, k), y |-> Lerp(start.y, end.y, k),
   radius |-> Lerp(start.radius, end.radius, k)]

\* the geometry the preceding layout computation solved for a set
PrecedingGeometry(sid) ==
  IF IsDefined(oldCircles) /\ sid \in DOMAIN Val(oldCircles)
  THEN Val(oldCircles)[sid] ELSE FallbackCircle

\* the previous snapshot a circle holds, the fallback circle when none
Snapshot(sid) ==
  IF sid \in DOMAIN Val(circles) /\ IsDefined(Val(circles)[sid].previous)
  THEN Val(circles)[sid].previous[1] ELSE FallbackCircle

\* the solved geometry of a set, the fallback circle when it has no circle
Current(sid) ==
  IF sid \in DOMAIN Val(circles)
  THEN [x |-> Val(circles)[sid].x, y |-> Val(circles)[sid].y,
        radius |-> Val(circles)[sid].radius]
  ELSE FallbackCircle

\* C5 as claimed: every call tween(region)(t) renders each member circle at
\* (1 - t) times its geometry from the preceding layout computation (the
\* fallback circle when the set had no circle then) plus t times its current
\* solved geometry, whatever tween calls were made before.
C5_TweenFromPrecedingLayout ==
  [][last'.op = "tween" =>
       \A n \in 1..Len(last'.path) :
         LET sid == Val(sets)[last'.region].sets[n] IN
           sid \in DOMAIN Val(circles) =>
             last'.path[n] = Blend(PrecedingGeometry(sid), Current(sid), last'.t)
    ]_vars

\* C5 as amended: every call tween(region)(t) renders each member circle at
\* (1 - t) times the previous snapshot the circle holds when the call is made
\* (the fallback circle when it holds none) plus t times its current solved
\* geometry (the fallback circle when the set has no circle); the snapshot is
\* the geometry of the preceding layout computation or, once a call with
\* t = 1 has committed it, the current geometry.
C5_TweenFromSnapshot ==
  /\ [](IsDefined(circles) =>
          \A sid \in DOMAIN Val(circles) :
            Snapshot(sid) \in {PrecedingGeometry(sid), Current(sid)})
  /\ [][last'.op = "tween" =>
          \A n \in 1..Len(last'.path) :
            LET sid == Val(sets)[last'.region].sets[n] IN
              last'.path[n] = Blend(Snapshot(sid), Current(sid), last'.t)
       ]_vars

\* a call half way between a snapshot and a different current geometry
C5_Witness ==
  /\ last.op = "tween"
  /\ last.t > 0 /\ last.t < TDen
  /\ \E n \in 1..Len(last.path) :
       LET sid == Val(sets)[last.region].sets[n] IN
         /\ sid \in DOMAIN Val(circles)
         /\ IsDefined(Val(circles)[sid].previous)
         /\ Snapshot(sid) # Current(sid)
         /\ last.path[n] = Blend(Snapshot(sid), Current(sid), last.t)

\* C6: a previous snapshot changes in two ways only: a tween call with t = 1
\* on a region that holds the circle's set sets it to the circle's current
\* geometry, and a layout computation gives the new circle of a set the
\* geometry the computation before solved for that set; a tween call with
\* another t changes no snapshot and no geometry, and neither does any other
\* call.
C6_SnapshotChanges ==
  [][/\ last'.op = "tween" /\ last'.t # TDen => circles' = circles
     /\ last'.op = "tween" /\ last'.t = TDen =>
          /\ DOMAIN Val(circles') = DOMAIN Val(circles)
          /\ \A cid \in DOMAIN Val(circles) :
               /\ Val(circles')[cid].x = Val(circles)[cid].x
               /\ Val(circles')[cid].y = Val(circles)[cid].y
               /\ Val(circles')[cid].radius = Val(circles)[cid].radius
               /\ Val(circles')[cid].previous =
                    IF \E n \in 1..Len(Val(sets)[last'.region].sets) :
                         Val(sets)[last'.region].sets[n] = cid
                    THEN <<Current(cid)>>
                    ELSE Val(circles)[cid].previous
     /\ last'.op = "compute" =>
          \A cid \in DOMAIN Val(circles') :
            Val(circles')[cid].previous =
              IF IsDefined(circles) /\ cid \in DOMAIN Val(circles)
              THEN <<Current(cid)>> ELSE <<>>
     /\ last'.op \notin {"tween", "compute"} => circles' = circles
    ]_vars

\* a commit that replaced the snapshot of the preceding computation
C6_Witness ==
  /\ last.op = "tween"
  /\ last.t = TDen
  /\ \E n \in 1..Len(last.path) :
       LET sid == Val(sets)[last.region].sets[n] IN
         /\ sid \in DOMAIN Val(circles)
         /\ Snapshot(sid) = Current(sid)
         /\ IsDefined(oldCircles) /\ sid \in DOMAIN Val(oldCircles)
         /\ PrecedingGeometry(sid) # Current(sid)

----------------------------------------------------------------------------
(* Claims about the Force strategy, checked under SpecConfig and SpecForce *)

\* C8: every recognized Force option supplied through packingConfig, before
\* the first layout computation or after one, is the value in effect on the
\* simulation handle of the next Force computation, and the handle of an
\* earlier computation is reused with its values.
C8_ConfigInEffect ==
  last.op = "compute" =>
    \A k \in DOMAIN packingConfig \cap DOMAIN ForceDefaults :
      Val(packer)[k] = packingConfig[k]

\* the region a record's stored key names after a computation
OwningRegion(i) ==
  IF IsDefined(data[i].setKey) /\ MapHas(Val(sets), Val(data[i].setKey))
  THEN <<Val(sets)[MapIndex(Val(sets), Val(data[i].setKey))]>>
  ELSE <<>>

\* C9: the initialization of a Force computation puts at its region's center
\* each record that has no position and whose stored key names a region;
\* a record that has a position, a coordinate 0 included, and a record whose
\* key names no region keep x and y.
C9_InitSeedsUnplaced ==
  [][last'.op = "compute" =>
       \A i \in 1..Len(data) :
         /\ IsDefined(data[i].x) /\ IsDefined(data[i].y) =>
              data'[i].x = data[i].x /\ data'[i].y = data[i].y
         /\ OwningRegion(i)' = <<>> =>
              data'[i].x = data[i].x /\ data'[i].y = data[i].y
         /\ ~IsDefined(data[i].x) /\ ~IsDefined(data[i].y)
              /\ OwningRegion(i)' # <<>> =>
              /\ data'[i].x = <<OwningRegion(i)'[1].center.x>>
              /\ data'[i].y = <<OwningRegion(i)'[1].center.y>>
    ]_vars

\* C10: in a sequence of Force computations on the same records, a record
\* whose membership list is empty in the current computation is moved
\* neither by the initialization of that computation nor by its ticks.
C10_EmptyRecordStays ==
  [][last'.op \in {"compute", "tick"} =>
       \A i \in 1..Len(data) :
         (~IsDefined(data'[i].set) \/ data'[i].set = <<<<>>>>) =>
           data'[i].x = data[i].x /\ data'[i].y = data[i].y
    ]_vars

----------------------------------------------------------------------------
(* Claims about the Distribute strategy, checked under SpecDist *)

\* the point is in the disk of the circle, its border included
InDisk(p, c) ==
  (p.x - c.x) * (p.x - c.x) + (p.y - c.y) * (p.y - c.y) <= c.radius * c.radius

\* the point is in every circle of the region's sets and in no other circle
InRegionOnly(p, set) ==
  \A cid \in DOMAIN Val(circles) :
    InDisk(p, Val(circles)[cid]) <=> (\E n \in 1..Len(set.sets) : set.sets[n] = cid)

PositionOf(n) == [x |-> data[n].x[1], y |-> data[n].y[1]]

\* what holds of the records placed so far, of the attempts and of the queue
DistPlacement ==
  /\ \A j \in 1..Len(Val(sets)) :
       \A m \in 1..Len(Val(sets)[j].nodes) :
         LET set == Val(sets)[j]
             n == set.nodes[m]
         IN  /\ dist.how[n] = "center" =>
                  m = 1 /\ PositionOf(n) = set.center
             /\ dist.how[n] = "sampled" =>
                  m > 1 /\ InRegionOnly(PositionOf(n), set)
             /\ dist.how[n] = "fallback" =>
                  m > 1 /\ PositionOf(n) = set.center
             /\ dist.how[n] = "none" => dist.pc = "run" /\ j >= dist.j
             /\ m = 1 /\ j < dist.j => dist.how[n] = "center"
  /\ dist.attempt < maxAttempt
  /\ \A q \in 1..Len(dist.queue) :
       IF q = 1 THEN dist.queue[q] = Val(sets)[dist.j].center
       ELSE InRegionOnly(dist.queue[q], Val(sets)[dist.j])
  /\ dist.pc = "run" => ENABLED NextDist

\* C7: distribute completes without raising, and then record 0 of every
\* region is at the region's center and every later record is at a sampled
\* point in every member circle and out of every other circle, or at the
\* center, and that only when its 500 attempts were all rejected; no record
\* takes more than 500 attempts and the anchors are record 0 and the
\* accepted points.
C7_Distribute ==
  /\ <>(dist.pc = "done")
  /\ []DistPlacement
  /\ [][\A n \in 1..Len(data) :
          dist'.how[n] = "fallback" /\ dist.how[n] # "fallback" =>
            dist.attempt + 1 = maxAttempt
       ]_vars

\* a finished run with a record at a sampled point away from the center
\* and a record that fell back
C7_Witness ==
  /\ dist.pc = "done"
  /\ \E n \in 1..Len(data) :
       /\ dist.how[n] = "sampled"
       /\ PositionOf(n) # Val(sets)[1].center
  /\ \E n \in 1..Len(data) : dist.how[n] = "fallback"

====
